---- MODULE Spec2Model ----
(***************************************************************************)
(* Tigo MCP server: the health and maintenance tools of the package server *)
(* (src/src/tigo_mcp_server/server.py) and of the top-level server         *)
(* (src/server.py).                                                        *)
(*                                                                         *)
(* One tool invocation is one action: the handler runs from its first line *)
(* to its return or raise.  The answers of the Tigo provider that the      *)
(* handler reads are its inputs; they are recorded in `provider`, the      *)
(* arguments of the call in `request`, and what the handler returns or     *)
(* raises in `response`.  Deliver hands the response to the host, after    *)
(* which the next invocation can start.  SpecOverlapped is the same        *)
(* handlers run by a host that accepts calls while others wait: each       *)
(* handler still runs from its first line to its return, and the order in  *)
(* which the waiting handlers run is free.                                 *)
(*                                                                         *)
(* Numbers: power and efficiency are Python floats in the source.  The     *)
(* model draws them from integer sets on which the float arithmetic of the *)
(* source is exact (current_power / power_rating * 100 with power_rating   *)
(* 1 or 100 and the powers of Powers), so integer arithmetic computes the  *)
(* same values.                                                            *)
(***************************************************************************)
EXTENDS Integers, Sequences, FiniteSets, TLC

\* Bounds of the model.
MaxAlerts == 3
MaxPanels == 6
MaxSystems == 2
\* TigoApiClient objects the constructor can produce in one run.
MaxClients == 2
\* Invocations the host has in flight at once.
MaxCalls == 2

VARIABLES
    tigo_client,     \* the package server's global client (None until created)
    clients_created, \* TigoApiClient objects constructed so far
    request,         \* the invocation in progress: tool and arguments
    provider,        \* the provider's answers read by that invocation
    response,        \* what the invocation returned or raised
    invocations      \* the invocations in flight when the host overlaps them

vars ==
    <<tigo_client, clients_created, request, provider, response, invocations>>

None == "None"
\* tigo_client = None: no client; the n-th client constructed is n.
NoClient == 0
\* system_id = None: no system identifier (identifiers are positive)
NoSystemId == 0
Idle == [tool |-> "idle"]
Nothing == [kind |-> "nothing"]
\* The places for invocations in flight; a place with none is Free.
Slots == 1..MaxCalls
Free == [stage |-> "free"]

----------------------------------------------------------------------------
\* Python dictionaries: a function from the keys present to their values.

EmptyDict == <<>>

\* dict.get(k, default)
Get(d, k, default) == IF k \in DOMAIN d THEN d[k] ELSE default

\* The dictionaries with key k absent or bound to a value of V.
Opt(k, V) == {EmptyDict} \cup {[x \in {k} |-> v] : v \in V}

----------------------------------------------------------------------------
\* Input domains.

SystemIds == 1..MaxSystems
\* system_id argument: None or an identifier.
SystemIdArgs == {NoSystemId} \cup SystemIds
\* The account's systems in the provider's order: none, or n systems, the
\* newest first.
SystemLists == {[i \in 1..n |-> n + 1 - i] : n \in 0..MaxSystems}

Ratings == {-100, 0, 1, 100}
Powers == {0, 10, 40, 41, 60, 61, 80, 81, 85, 90}
\* recent_alerts_count as the provider reports it; nothing in the source
\* keeps a negative count out.
AlertCounts == -1..MaxAlerts
Thresholds == {60, 85, 90}
Efficiencies == {55, 60, 61, 69, 70, 71, 80, 81, 84, 85, 87, 90}

\* One entry of get_systems()['systems'], without its system_id.
SystemInfos ==
    {a @@ b : a \in Opt("power_rating", Ratings),
              b \in Opt("recent_alerts_count", AlertCounts)}

\* get_system_summary(system_id)
Summaries == Opt("last_power_dc", Powers)

\* calculate_system_efficiency(system_id, days_back)
EfficiencyReports == Opt("average_efficiency_percent", Efficiencies)

\* get_alerts(system_id): up to MaxAlerts alerts, each active or resolved.
AlertStatuses == {"active", "resolved"}
AlertLists ==
    UNION {[1..n -> {[status |-> st] : st \in AlertStatuses}] :
             n \in 0..MaxAlerts}
AlertReports == Opt("alerts", AlertLists)

\* find_underperforming_panels(system_id, threshold_percent): n panels, in
\* the adapter's order.
PanelLists ==
    {[i \in 1..n |-> [panel_id |-> n + 1 - i]] : n \in 0..MaxPanels}

----------------------------------------------------------------------------
\* Sequences.

\* s[:n]
Take(s, n) == SubSeq(s, 1, IF n < Len(s) THEN n ELSE Len(s))

Raised(message) == [kind |-> "raised", error |-> message]
Returned(message) == [kind |-> "error", error |-> message]

\* A recommendation string; count is the number interpolated into it.
Message(text, count) == [text |-> text, count |-> count]

----------------------------------------------------------------------------
\* Package server, src/src/tigo_mcp_server/server.py

\* The outcome of a float expression: a value, or ZeroDivisionError raised.
Value(v) == [raised |-> FALSE, value |-> v]
ZeroDivisionError == [raised |-> TRUE, value |-> 0]

\* current_power / power_rating * 100
PercentOf(current_power, power_rating) ==
    IF power_rating = 0 THEN ZeroDivisionError
    ELSE Value((current_power * 100) \div power_rating)

\* Variant: the division without its guard.
PkgEfficiencyUnguarded(current_power, power_rating) ==
    PercentOf(current_power, power_rating)

\* Variant: a non-positive rating replaced by 1.
PkgEfficiencyRatingOne(current_power, power_rating) ==
    PercentOf(current_power, IF power_rating > 0 THEN power_rating ELSE 1)

\* (current_power / power_rating * 100) if power_rating > 0 else 0
PkgEfficiency(current_power, power_rating) ==
    IF power_rating > 0 THEN PercentOf(current_power, power_rating)
    ELSE Value(0)

\* Variant: efficiency 80 counted as Excellent.
PkgOverallHealthLoose(active_alerts, efficiency_percent) ==
    IF active_alerts = 0 /\ efficiency_percent >= 80 THEN "Excellent"
    ELSE IF active_alerts = 0 /\ efficiency_percent > 60 THEN "Good"
    ELSE IF active_alerts <= 2 /\ efficiency_percent > 40 THEN "Fair"
    ELSE "Needs Attention"

\* The if/elif chain that determines overall_health.
PkgOverallHealth(active_alerts, efficiency_percent) ==
    IF active_alerts = 0 /\ efficiency_percent > 80 THEN "Excellent"
    ELSE IF active_alerts = 0 /\ efficiency_percent > 60 THEN "Good"
    ELSE IF active_alerts <= 2 /\ efficiency_percent > 40 THEN "Fair"
    ELSE "Needs Attention"

EfficiencyBelowOptimal ==
    Message("System efficiency is below optimal - consider maintenance check",
            0)
AddressAlerts(n) == Message("Address {active_alerts} active alerts", n)
PerformingWell == Message("System is performing well", 0)

\* Variant: the alert entry appended before the efficiency entry.
PkgRecommendationsAlertsFirst(active_alerts, efficiency_percent) ==
    LET r == (IF active_alerts > 0
                THEN <<AddressAlerts(active_alerts)>> ELSE <<>>)
             \o (IF efficiency_percent < 60
                   THEN <<EfficiencyBelowOptimal>> ELSE <<>>)
    IN  IF r = <<>> THEN <<PerformingWell>> ELSE r

\* recommendations of get_system_health
PkgRecommendations(active_alerts, efficiency_percent) ==
    LET r == (IF efficiency_percent < 60
                THEN <<EfficiencyBelowOptimal>> ELSE <<>>)
             \o (IF active_alerts > 0
                   THEN <<AddressAlerts(active_alerts)>> ELSE <<>>)
    IN  IF r = <<>> THEN <<PerformingWell>> ELSE r

\* Variant: a client constructed at every call, the global not consulted.
InitializedClientNotReused(global, credentials, constructed, fresh) ==
    IF ~credentials THEN NoClient
    ELSE IF constructed THEN fresh
    ELSE NoClient

\* initialize_tigo_client(): the client returned (None on failure) given the
\* global, whether both credentials are set, whether the constructor
\* succeeds and the object it would construct.
InitializedClient(global, credentials, constructed, fresh) ==
    IF global # NoClient THEN global
    ELSE IF ~credentials THEN NoClient
    ELSE IF constructed THEN fresh
    ELSE NoClient

\* The global after initialize_tigo_client() returned `client`: assigned
\* when a client was constructed, left alone otherwise.
StoredClient(global, client) == IF client # NoClient THEN client ELSE global

\* The number of clients constructed once the call returned `client`.
CreatedAfter(global, client, created) ==
    IF client # NoClient /\ client # global THEN created + 1 ELSE created

\* The system a package tool works on: the argument, or the first system of
\* the listing; None when there is no system to take.
PkgResolveSystem(system_id, systems) ==
    IF system_id # NoSystemId THEN system_id
    ELSE IF systems = <<>> THEN NoSystemId
    ELSE systems[1]

\* Variant: the fields read by subscript, so that an absent field raises
\* KeyError.
PkgHealthResultSubscripted(system_id, system_info, summary) ==
    IF \/ "recent_alerts_count" \notin DOMAIN system_info
       \/ "power_rating" \notin DOMAIN system_info
       \/ "last_power_dc" \notin DOMAIN summary
    THEN Raised("KeyError")
    ELSE LET active_alerts == system_info["recent_alerts_count"]
             power_rating == system_info["power_rating"]
             current_power == summary["last_power_dc"]
             efficiency == PkgEfficiency(current_power, power_rating)
         IN  IF efficiency.raised
             THEN Raised("division by zero")
             ELSE [kind |-> "health",
                   system_id |-> system_id,
                   overall_health |->
                       PkgOverallHealth(active_alerts, efficiency.value),
                   active_alerts |-> active_alerts,
                   efficiency_percent |-> efficiency.value,
                   recommendations |->
                       PkgRecommendations(active_alerts, efficiency.value),
                   rated_power_dc |-> power_rating,
                   current_power_dc |-> current_power]

\* The body of get_system_health once system_info and summary are in hand.
PkgHealthResult(system_id, system_info, summary) ==
    LET active_alerts == Get(system_info, "recent_alerts_count", 0)
        power_rating == Get(system_info, "power_rating", 1)
        current_power == Get(summary, "last_power_dc", 0)
        efficiency == PkgEfficiency(current_power, power_rating)
        efficiency_percent == efficiency.value
    IN  IF efficiency.raised
        THEN Raised("division by zero")
        ELSE [kind |-> "health",
              system_id |-> system_id,
              overall_health |->
                  PkgOverallHealth(active_alerts, efficiency_percent),
              active_alerts |-> active_alerts,
              efficiency_percent |-> efficiency_percent,
              recommendations |->
                  PkgRecommendations(active_alerts, efficiency_percent),
              rated_power_dc |-> power_rating,
              current_power_dc |-> current_power]

PkgPriorityCount(recommendations, priority) ==
    Len(SelectSeq(recommendations, LAMBDA r : r.priority = priority))

\* The body of get_maintenance_insights once system_info and summary are in
\* hand.
PkgMaintenanceResult(system_id, threshold_percent, system_info, summary) ==
    LET power_rating == Get(system_info, "power_rating", 1)
        current_power == Get(summary, "last_power_dc", 0)
        efficiency == PkgEfficiency(current_power, power_rating)
        active_alerts == Get(system_info, "recent_alerts_count", 0)
        found ==
            (IF efficiency.value < threshold_percent
               THEN <<[priority |-> "High", component |-> "Solar Array",
                       action |-> "Schedule inspection and cleaning"]>>
               ELSE <<>>)
            \o (IF active_alerts > 0
                  THEN <<[priority |-> "Medium",
                          component |-> "System Monitoring",
                          action |-> "Review and address system alerts"]>>
                  ELSE <<>>)
        recommendations ==
            IF found = <<>>
            THEN <<[priority |-> "Low",
                    component |-> "Preventive Maintenance",
                    action |-> "Schedule routine maintenance check"]>>
            ELSE found
    IN  IF efficiency.raised
        THEN Raised("division by zero")
        ELSE [kind |-> "maintenance",
              system_id |-> system_id,
              threshold_percent |-> threshold_percent,
              current_efficiency |-> efficiency.value,
              recommendations |-> recommendations,
              total_recommendations |-> Len(recommendations),
              high_priority |-> PkgPriorityCount(recommendations, "High"),
              medium_priority |-> PkgPriorityCount(recommendations, "Medium"),
              low_priority |-> PkgPriorityCount(recommendations, "Low"),
              next_actions |->
                  [i \in 1..Len(Take(recommendations, 3)) |->
                      recommendations[i].action]]

\* What every package tool does first: the client, then the default
\* system when system_id is None.  `rest` is the result of what follows.
PkgResolve(client, system_id, p, rest) ==
    IF client = NoClient THEN Raised("Failed to initialize Tigo API client")
    ELSE IF system_id = NoSystemId /\ ~p.listing_ok
         THEN Raised("provider error")
    ELSE IF system_id = NoSystemId /\ p.systems = <<>>
         THEN Raised("No systems found for this account")
    ELSE rest

\* What get_system_health and get_maintenance_insights do before their own
\* body: client, default system, summary and system entry.  `body` is the
\* result of the tool's own part.
PkgCall(client, system_id, p, body) ==
    PkgResolve(client, system_id, p,
        IF ~p.ok THEN Raised("provider error")
        ELSE IF \A i \in 1..Len(p.systems) :
                    p.systems[i] # PkgResolveSystem(system_id, p.systems)
             THEN Raised("System not found")
        ELSE body)

\* What the environment holds for initialize_tigo_client.
ClientAttempts == [credentials : BOOLEAN, constructed : BOOLEAN]

\* The provider's answers to get_system_health and get_maintenance_insights
\* (listing_ok: get_systems() for the default system did not raise; ok: no
\* later provider call raised).
PkgProviderAnswers ==
    [listing_ok : BOOLEAN, systems : SystemLists, ok : BOOLEAN,
     system_info : SystemInfos, summary : Summaries]

\* The provider's answers to get_system_details.
PkgDetailsAnswers ==
    [listing_ok : BOOLEAN, systems : SystemLists, ok : BOOLEAN]

\* The provider methods an invocation called, in order: the listing when
\* system_id is None, then the tool's data calls; a data call that raises
\* (taken to be the first) ends the list.
ProviderCalls(reached, system_id, listing, p, data_calls) ==
    IF ~reached THEN <<>>
    ELSE IF system_id = NoSystemId /\ (~p.listing_ok \/ p.systems = <<>>)
         THEN <<listing>>
    ELSE (IF system_id = NoSystemId THEN <<listing>> ELSE <<>>)
         \o (IF p.ok THEN data_calls ELSE Take(data_calls, 1))

\* The part of the environment the invocation got to read: the attempt to
\* construct a client when the global was None, and the answers of the
\* provider calls made (`data`: those of the tool's data calls).
PkgObserved(global, client, system_id, c, p, data, data_calls) ==
    [calls |-> ProviderCalls(client # NoClient, system_id, "get_systems", p,
                             data_calls)]
    @@ (IF global # NoClient THEN EmptyDict
        ELSE IF c.credentials THEN [attempt |-> c]
        ELSE [attempt |-> [credentials |-> FALSE, constructed |-> FALSE]])
    @@ (IF client = NoClient THEN EmptyDict
        ELSE IF system_id = NoSystemId /\ ~p.listing_ok
             THEN [listing_ok |-> FALSE]
        ELSE IF system_id = NoSystemId /\ p.systems = <<>>
             THEN [systems |-> p.systems]
        ELSE IF ~p.ok THEN [ok |-> FALSE]
        ELSE data)

\* The answers get_system_health and get_maintenance_insights read from
\* their data calls: the listing, and the entry and summary of the system
\* when the listing has it.
PkgSystemData(system_id, p) ==
    IF \E i \in 1..Len(p.systems) :
           p.systems[i] = PkgResolveSystem(system_id, p.systems)
    THEN [systems |-> p.systems, system_info |-> p.system_info,
          summary |-> p.summary]
    ELSE [systems |-> p.systems]

PkgSystemCalls == <<"get_system_summary", "get_systems">>

\* client = initialize_tigo_client(), with the environment's answer c.
PkgClient(c) ==
    InitializedClient(tigo_client, c.credentials, c.constructed,
                      clients_created + 1)

\* The effect of initialize_tigo_client() on the global.  The constructor
\* produces at most MaxClients objects.
PkgInitialize(c) ==
    /\ (tigo_client = NoClient /\ c.credentials /\ c.constructed)
          => clients_created < MaxClients
    /\ tigo_client' = StoredClient(tigo_client, PkgClient(c))
    /\ clients_created' =
          CreatedAfter(tigo_client, PkgClient(c), clients_created)

\* @app.tool() get_system_details(system_id)
PkgGetSystemDetails ==
    /\ request = Idle
    /\ \E system_id \in SystemIdArgs, c \in ClientAttempts,
          p \in PkgDetailsAnswers :
        /\ PkgInitialize(c)
        /\ UNCHANGED invocations
        /\ request' = [tool |-> "pkg.get_system_details",
                       system_id |-> system_id]
        /\ provider' =
             PkgObserved(tigo_client, PkgClient(c), system_id, c, p,
                         IF system_id = NoSystemId
                         THEN [systems |-> p.systems] ELSE EmptyDict,
                         <<"get_system_details">>)
        /\ response' =
             PkgResolve(PkgClient(c), system_id, p,
                 IF ~p.ok THEN Raised("provider error")
                 ELSE [kind |-> "details",
                       system_id |->
                           PkgResolveSystem(system_id, p.systems)])

\* @app.tool() get_system_health(system_id)
PkgGetSystemHealth ==
    /\ request = Idle
    /\ \E system_id \in SystemIdArgs, c \in ClientAttempts,
          p \in PkgProviderAnswers :
        /\ PkgInitialize(c)
        /\ UNCHANGED invocations
        /\ request' = [tool |-> "pkg.get_system_health",
                       system_id |-> system_id]
        /\ provider' =
             PkgObserved(tigo_client, PkgClient(c), system_id, c, p,
                         PkgSystemData(system_id, p), PkgSystemCalls)
        /\ response' =
             PkgCall(PkgClient(c), system_id, p,
                     PkgHealthResult(PkgResolveSystem(system_id, p.systems),
                                     p.system_info, p.summary))

\* @app.tool() get_maintenance_insights(system_id, threshold_percent)
PkgGetMaintenanceInsights ==
    /\ request = Idle
    /\ \E system_id \in SystemIdArgs, threshold_percent \in Thresholds,
          c \in ClientAttempts, p \in PkgProviderAnswers :
        /\ PkgInitialize(c)
        /\ UNCHANGED invocations
        /\ request' = [tool |-> "pkg.get_maintenance_insights",
                       system_id |-> system_id,
                       threshold_percent |-> threshold_percent]
        /\ provider' =
             PkgObserved(tigo_client, PkgClient(c), system_id, c, p,
                         PkgSystemData(system_id, p), PkgSystemCalls)
        /\ response' =
             PkgCall(PkgClient(c), system_id, p,
                     PkgMaintenanceResult(
                         PkgResolveSystem(system_id, p.systems),
                         threshold_percent, p.system_info, p.summary))

----------------------------------------------------------------------------
\* Top-level server, src/server.py

\* get_primary_system_id(client): the first system of the listing; None when
\* the listing is empty or list_systems() raised.
get_primary_system_id(listing_ok, systems) ==
    IF ~listing_ok THEN NoSystemId
    ELSE IF systems # <<>> THEN systems[1]
    ELSE NoSystemId

\* Variant: the first system of the listing taken whatever the argument.
TopResolveSystemAlwaysPrimary(system_id, listing_ok, systems) ==
    get_primary_system_id(listing_ok, systems)

\* The system a top-level tool works on.
TopResolveSystem(system_id, listing_ok, systems) ==
    IF system_id = NoSystemId
    THEN get_primary_system_id(listing_ok, systems)
    ELSE system_id

\* What a top-level tool does around its own body: the client's context,
\* the default system and the except clause.
TopCall(system_id, p, body) ==
    IF ~p.connected THEN Returned("Error fetching")
    ELSE IF TopResolveSystem(system_id, p.listing_ok, p.systems) = NoSystemId
         THEN Returned("No systems found")
    ELSE IF ~p.ok THEN Returned("Error fetching")
    ELSE body

\* The if/elif chain that determines health_status.
TopHealthStatus(alert_count, efficiency_percent) ==
    IF alert_count = 0 /\ efficiency_percent > 80 THEN "Excellent"
    ELSE IF alert_count <= 2 /\ efficiency_percent > 70 THEN "Good"
    ELSE IF alert_count <= 5 /\ efficiency_percent > 60 THEN "Fair"
    ELSE "Needs Attention"

ReviewAlerts == Message("Review and address active system alerts", 0)
PerformingOptimally == Message("System is performing optimally", 0)

\* response_data["recommendations"] of Get_System_Health
TopRecommendations(alert_count, efficiency_percent, health_status) ==
    (IF alert_count > 0 THEN <<ReviewAlerts>> ELSE <<>>)
    \o (IF efficiency_percent < 70 THEN <<EfficiencyBelowOptimal>> ELSE <<>>)
    \o (IF health_status = "Excellent" THEN <<PerformingOptimally>> ELSE <<>>)

\* The body of Get_System_Health once the provider has answered.
TopHealthResult(system_id, alerts, efficiency) ==
    LET alert_count == Len(Get(alerts, "alerts", <<>>))
        efficiency_percent == Get(efficiency, "average_efficiency_percent", 0)
        health_status == TopHealthStatus(alert_count, efficiency_percent)
    IN  [kind |-> "health",
         system_id |-> system_id,
         overall_health |-> health_status,
         active_alerts |-> alert_count,
         efficiency_percent |-> efficiency_percent,
         recommendations |->
             TopRecommendations(alert_count, efficiency_percent,
                                health_status),
         recent_alerts |-> Take(Get(alerts, "alerts", <<>>), 3)]

InspectPanels ==
    "Inspect underperforming panels for soiling, shading, or hardware issues"
InspectSystem == "Schedule comprehensive system inspection and cleaning"
CleanPanels == "Consider panel cleaning and connection inspection"
AddressImmediately == "Address active alerts immediately"
ContinueMonitoring == "System is performing well - continue regular monitoring"

\* Variant: three underperforming panels already counted as High.
PanelAnalysisHighFromThree(underperforming) ==
    IF Len(underperforming) > 0
    THEN [items |->
            <<[category |-> "Panel Performance",
               priority |-> IF Len(underperforming) >= 3
                              THEN "High" ELSE "Medium",
               recommendation |-> InspectPanels,
               affected_panels |->
                   [i \in 1..Len(Take(underperforming, 5)) |->
                       underperforming[i].panel_id]]>>,
          score |-> Len(underperforming) * 10]
    ELSE [items |-> <<>>, score |-> 0]

\* "Analyze underperforming panels": the item and its score.
PanelAnalysis(underperforming) ==
    IF Len(underperforming) > 0
    THEN [items |->
            <<[category |-> "Panel Performance",
               priority |-> IF Len(underperforming) > 3
                              THEN "High" ELSE "Medium",
               recommendation |-> InspectPanels,
               affected_panels |->
                   [i \in 1..Len(Take(underperforming, 5)) |->
                       underperforming[i].panel_id]]>>,
          score |-> Len(underperforming) * 10]
    ELSE [items |-> <<>>, score |-> 0]

\* Variant: the Medium band bounded by threshold_percent instead of 85.
EfficiencyAnalysisByThreshold(avg_efficiency, threshold_percent) ==
    IF avg_efficiency < 70
    THEN [items |-> <<[category |-> "System Efficiency",
                       priority |-> "High",
                       recommendation |-> InspectSystem]>>,
          score |-> 50]
    ELSE IF avg_efficiency < threshold_percent
    THEN [items |-> <<[category |-> "System Efficiency",
                       priority |-> "Medium",
                       recommendation |-> CleanPanels]>>,
          score |-> 25]
    ELSE [items |-> <<>>, score |-> 0]

\* Variant: efficiency 70 counted in the High band.
EfficiencyAnalysisInclusive(avg_efficiency, threshold_percent) ==
    IF avg_efficiency <= 70
    THEN [items |-> <<[category |-> "System Efficiency",
                       priority |-> "High",
                       recommendation |-> InspectSystem]>>,
          score |-> 50]
    ELSE IF avg_efficiency < 85
    THEN [items |-> <<[category |-> "System Efficiency",
                       priority |-> "Medium",
                       recommendation |-> CleanPanels]>>,
          score |-> 25]
    ELSE [items |-> <<>>, score |-> 0]

\* "Analyze system efficiency": the item and its score.
EfficiencyAnalysis(avg_efficiency, threshold_percent) ==
    IF avg_efficiency < 70
    THEN [items |-> <<[category |-> "System Efficiency",
                       priority |-> "High",
                       recommendation |-> InspectSystem]>>,
          score |-> 50]
    ELSE IF avg_efficiency < 85
    THEN [items |-> <<[category |-> "System Efficiency",
                       priority |-> "Medium",
                       recommendation |-> CleanPanels]>>,
          score |-> 25]
    ELSE [items |-> <<>>, score |-> 0]

\* Variant: every alert counted, whatever its status.
ActiveAlertsUnfiltered(alerts) == Get(alerts, "alerts", <<>>)

\* [a for a in alerts.get("alerts", []) if a.get("status") == "active"]
ActiveAlerts(alerts) ==
    SelectSeq(Get(alerts, "alerts", <<>>),
              LAMBDA a : Get(a, "status", None) = "active")

\* "Analyze alerts": the item and its score.
AlertAnalysis(active_alerts) ==
    IF Len(active_alerts) > 0
    THEN [items |-> <<[category |-> "System Alerts",
                       priority |-> "High",
                       recommendation |-> AddressImmediately,
                       alert_details |-> Take(active_alerts, 3)]>>,
          score |-> Len(active_alerts) * 15]
    ELSE [items |-> <<>>, score |-> 0]

\* Variant: the cutoffs 100, 50 and 25 counted in the higher class.
OverallPriorityInclusive(priority_score) ==
    IF priority_score >= 100 THEN "Critical"
    ELSE IF priority_score >= 50 THEN "High"
    ELSE IF priority_score >= 25 THEN "Medium"
    ELSE "Low"

\* Variant: the Medium class left out.
OverallPriorityNoMedium(priority_score) ==
    IF priority_score > 100 THEN "Critical"
    ELSE IF priority_score > 50 THEN "High"
    ELSE "Low"

\* "Determine overall maintenance priority"
OverallPriority(priority_score) ==
    IF priority_score > 100 THEN "Critical"
    ELSE IF priority_score > 50 THEN "High"
    ELSE IF priority_score > 25 THEN "Medium"
    ELSE "Low"

\* Variant: the recommendation of the first High item, if there is one.
NextRecommendedActionByPriority(maintenance_items) ==
    LET high == SelectSeq(maintenance_items,
                          LAMBDA item : item.priority = "High")
    IN  IF high # <<>> THEN high[1].recommendation
        ELSE IF maintenance_items # <<>>
        THEN maintenance_items[1].recommendation
        ELSE ContinueMonitoring

\* maintenance_items[0]["recommendation"] if maintenance_items else "..."
NextRecommendedAction(maintenance_items) ==
    IF maintenance_items # <<>>
    THEN maintenance_items[1].recommendation
    ELSE ContinueMonitoring

\* Variant: the alert score assigned (=) instead of added (+=).
PriorityScoreOverwritten(panel_score, efficiency_score, alert_score) ==
    IF alert_score > 0 THEN alert_score
    ELSE panel_score + efficiency_score

\* priority_score = 0, then += the score of each analysis
PriorityScore(panel_score, efficiency_score, alert_score) ==
    0 + panel_score + efficiency_score + alert_score

\* The body of Get_Maintenance_Insights once the provider has answered.
TopMaintenanceResult(system_id, threshold_percent, underperforming, efficiency, alerts) ==
    LET avg_efficiency == Get(efficiency, "average_efficiency_percent", 100)
        panels == PanelAnalysis(underperforming)
        eff == EfficiencyAnalysis(avg_efficiency, threshold_percent)
        alrt == AlertAnalysis(ActiveAlerts(alerts))
        maintenance_items == panels.items \o eff.items \o alrt.items
        priority_score == PriorityScore(panels.score, eff.score, alrt.score)
    IN  [kind |-> "maintenance",
         system_id |-> system_id,
         overall_maintenance_priority |-> OverallPriority(priority_score),
         priority_score |-> priority_score,
         maintenance_items |-> maintenance_items,
         total_issues |-> Len(maintenance_items),
         critical_issues |->
             Len(SelectSeq(maintenance_items,
                           LAMBDA item : item.priority = "High")),
         system_efficiency |-> avg_efficiency,
         underperforming_panels |-> Len(underperforming),
         next_recommended_action |->
             NextRecommendedAction(maintenance_items)]

\* The provider's answers to a top-level tool (connected: the client's
\* context was entered; ok: no data call raised).
TopHealthAnswers ==
    [connected : BOOLEAN, listing_ok : BOOLEAN, systems : SystemLists,
     ok : BOOLEAN, alerts : AlertReports, efficiency : EfficiencyReports]

TopMaintenanceAnswers ==
    [connected : BOOLEAN, listing_ok : BOOLEAN, systems : SystemLists,
     ok : BOOLEAN, underperforming : PanelLists, alerts : AlertReports,
     efficiency : EfficiencyReports]

\* The provider's answers to Get_System_Details.
TopDetailsAnswers ==
    [connected : BOOLEAN, listing_ok : BOOLEAN, systems : SystemLists,
     ok : BOOLEAN]

\* The part of the answers the invocation got to read (`data`: the answers
\* of the tool's data calls), with the provider methods called.
TopObserved(system_id, p, data, data_calls) ==
    [calls |-> ProviderCalls(p.connected, system_id, "list_systems", p,
                             data_calls)]
    @@ (IF ~p.connected THEN [connected |-> FALSE]
        ELSE IF system_id = NoSystemId /\ ~p.listing_ok
             THEN [listing_ok |-> FALSE]
        ELSE IF TopResolveSystem(system_id, p.listing_ok, p.systems)
                    = NoSystemId
             THEN [systems |-> p.systems]
        ELSE IF ~p.ok THEN [ok |-> FALSE]
        ELSE IF system_id = NoSystemId THEN [systems |-> p.systems] @@ data
        ELSE data)

\* @mcp.tool("Get_System_Details")
TopGetSystemDetails ==
    /\ request = Idle
    /\ \E system_id \in SystemIdArgs, p \in TopDetailsAnswers :
        /\ request' = [tool |-> "top.Get_System_Details",
                       system_id |-> system_id]
        /\ provider' =
             TopObserved(system_id, p, EmptyDict, <<"get_system_info">>)
        /\ response' =
             TopCall(system_id, p,
                     [kind |-> "details",
                      system_id |->
                          TopResolveSystem(system_id, p.listing_ok,
                                           p.systems)])
        /\ UNCHANGED <<tigo_client, clients_created, invocations>>

\* @mcp.tool("Get_System_Health")
TopGetSystemHealth ==
    /\ request = Idle
    /\ \E system_id \in SystemIdArgs, p \in TopHealthAnswers :
        /\ request' = [tool |-> "top.Get_System_Health",
                       system_id |-> system_id]
        /\ provider' =
             TopObserved(system_id, p,
                         [alerts |-> p.alerts, efficiency |-> p.efficiency],
                         <<"get_summary", "get_alerts",
                           "calculate_system_efficiency">>)
        /\ response' =
             TopCall(system_id, p,
                     TopHealthResult(
                         TopResolveSystem(system_id, p.listing_ok, p.systems),
                         p.alerts, p.efficiency))
        /\ UNCHANGED <<tigo_client, clients_created, invocations>>

\* @mcp.tool("Get_Maintenance_Insights")
TopGetMaintenanceInsights ==
    /\ request = Idle
    /\ \E system_id \in SystemIdArgs, threshold_percent \in Thresholds,
          p \in TopMaintenanceAnswers :
        /\ request' = [tool |-> "top.Get_Maintenance_Insights",
                       system_id |-> system_id,
                       threshold_percent |-> threshold_percent]
        /\ provider' =
             TopObserved(system_id, p,
                         [underperforming |-> p.underperforming,
                          alerts |-> p.alerts, efficiency |-> p.efficiency],
                         <<"find_underperforming_panels",
                           "calculate_system_efficiency", "get_alerts">>)
        /\ response' =
             TopCall(system_id, p,
                     TopMaintenanceResult(
                         TopResolveSystem(system_id, p.listing_ok, p.systems),
                         threshold_percent, p.underperforming, p.efficiency,
                         p.alerts))
        /\ UNCHANGED <<tigo_client, clients_created, invocations>>

----------------------------------------------------------------------------
\* The host takes the response; the server waits for the next call.
Deliver ==
    /\ request # Idle
    /\ request' = Idle
    /\ provider' = Nothing
    /\ response' = Nothing
    /\ UNCHANGED <<tigo_client, clients_created, invocations>>

----------------------------------------------------------------------------
Init ==
    /\ tigo_client = NoClient
    /\ clients_created = 0
    /\ request = Idle
    /\ provider = Nothing
    /\ response = Nothing
    /\ invocations = [i \in Slots |-> Free]

Next ==
    \/ PkgGetSystemDetails
    \/ PkgGetSystemHealth
    \/ PkgGetMaintenanceInsights
    \/ TopGetSystemDetails
    \/ TopGetSystemHealth
    \/ TopGetMaintenanceInsights
    \/ Deliver

Spec == Init /\ [][Next]_vars

----------------------------------------------------------------------------
\* Overlapping invocations.  The host may accept a tool call while others
\* are waiting; the handlers are coroutines on one event loop and contain no
\* await, so a handler that has started runs to its return before another
\* starts: the order in which the waiting handlers run is the interleaving.
\* A place of `invocations` holds a call from its arrival, with the answers
\* the environment will give it, until the host has taken its response.

\* The account's listing, and the answers drawn for overlapping calls.
Listing == [i \in 1..MaxSystems |-> MaxSystems + 1 - i]
OverlapAttempts == {[credentials |-> TRUE, constructed |-> b] : b \in BOOLEAN}
OverlapSystemInfos ==
    {[power_rating |-> 100, recent_alerts_count |-> a] : a \in {0, 1}}
OverlapPanelLists == {panels \in PanelLists : Len(panels) <= 1}

\* get_system_health(system_id) of the package server, for a system of the
\* listing.
PkgHealthInvocations ==
    {[tool |-> "pkg.get_system_health", system_id |-> system_id, c |-> c,
      p |-> [listing_ok |-> TRUE, systems |-> Listing, ok |-> TRUE,
             system_info |-> system_info,
             summary |-> [last_power_dc |-> 90]]] :
        system_id \in SystemIds, c \in OverlapAttempts,
        system_info \in OverlapSystemInfos}

\* Get_Maintenance_Insights(system_id, 85) of the top-level server.
TopMaintenanceInvocations ==
    {[tool |-> "top.Get_Maintenance_Insights", system_id |-> system_id,
      threshold_percent |-> 85,
      p |-> [connected |-> TRUE, listing_ok |-> TRUE, systems |-> Listing,
             ok |-> TRUE, underperforming |-> underperforming,
             alerts |-> [alerts |-> <<>>],
             efficiency |-> [average_efficiency_percent |-> 90]]] :
        system_id \in SystemIds, underperforming \in OverlapPanelLists}

\* What get_system_health returns or raises for call k when it finds the
\* global client `global` and the constructor would produce `fresh`.
PkgHealthResponse(global, fresh, k) ==
    PkgCall(InitializedClient(global, k.c.credentials, k.c.constructed,
                              fresh),
            k.system_id, k.p,
            PkgHealthResult(PkgResolveSystem(k.system_id, k.p.systems),
                            k.p.system_info, k.p.summary))

\* What Get_Maintenance_Insights returns for call k.
TopMaintenanceResponse(k) ==
    TopCall(k.system_id, k.p,
            TopMaintenanceResult(
                TopResolveSystem(k.system_id, k.p.listing_ok, k.p.systems),
                k.threshold_percent, k.p.underperforming, k.p.efficiency,
                k.p.alerts))

Finished(k, result) == [stage |-> "done", call |-> k, response |-> result]

\* The host accepts a call; its handler is scheduled.
Arrive(i) ==
    /\ invocations[i] = Free
    /\ \E k \in PkgHealthInvocations \cup TopMaintenanceInvocations :
         invocations' =
             [invocations EXCEPT ![i] = [stage |-> "pending", call |-> k]]
    /\ UNCHANGED <<tigo_client, clients_created, request, provider, response>>

\* The calls in the other places that have run.
OthersDone(i) ==
    {j \in Slots \ {i} : invocations[j].stage = "done"}

\* Variant: the handler scores the snapshot kept in a module-level variable,
\* which the call that ran last has overwritten.
PkgGetSystemHealthSharedSnapshot(i) ==
    /\ invocations[i].stage = "pending"
    /\ invocations[i].call.tool = "pkg.get_system_health"
    /\ LET k == invocations[i].call
           seen == {invocations[j].call.p : j \in
                      {j \in OthersDone(i) :
                         invocations[j].call.tool = k.tool}}
       IN  /\ PkgInitialize(k.c)
           /\ \E p \in seen \cup {k.p} :
                 invocations' =
                     [invocations EXCEPT ![i] =
                        Finished(k, PkgHealthResponse(
                                        tigo_client, clients_created + 1,
                                        [k EXCEPT !.p = p]))]
    /\ UNCHANGED <<request, provider, response>>

\* The handler of get_system_health runs, from its first line to its
\* return or raise.
PkgGetSystemHealthOverlapped(i) ==
    /\ invocations[i].stage = "pending"
    /\ invocations[i].call.tool = "pkg.get_system_health"
    /\ LET k == invocations[i].call
       IN  /\ PkgInitialize(k.c)
           /\ invocations' =
                 [invocations EXCEPT ![i] =
                    Finished(k, PkgHealthResponse(tigo_client,
                                                  clients_created + 1, k))]
    /\ UNCHANGED <<request, provider, response>>

\* Variant: priority_score kept in a module-level variable that is not
\* reset, so that a call adds to the score of the calls that ran before.
TopGetMaintenanceInsightsScoreKept(i) ==
    /\ invocations[i].stage = "pending"
    /\ invocations[i].call.tool = "top.Get_Maintenance_Insights"
    /\ LET k == invocations[i].call
           own == TopMaintenanceResponse(k)
           kept == {invocations[j].response.priority_score : j \in
                      {j \in OthersDone(i) :
                         invocations[j].call.tool = k.tool}}
       IN  \E before \in kept \cup {0} :
             invocations' =
                 [invocations EXCEPT ![i] =
                    Finished(k, [own EXCEPT
                                   !.priority_score = @ + before,
                                   !.overall_maintenance_priority =
                                       OverallPriority(
                                           own.priority_score + before)])]
    /\ UNCHANGED <<tigo_client, clients_created, request, provider, response>>

\* The handler of Get_Maintenance_Insights runs, from its first line to its
\* return.
TopGetMaintenanceInsightsOverlapped(i) ==
    /\ invocations[i].stage = "pending"
    /\ invocations[i].call.tool = "top.Get_Maintenance_Insights"
    /\ invocations' =
         [invocations EXCEPT ![i] =
            Finished(invocations[i].call,
                     TopMaintenanceResponse(invocations[i].call))]
    /\ UNCHANGED <<tigo_client, clients_created, request, provider, response>>

\* The host takes the response of a call that has run.
Return(i) ==
    /\ invocations[i].stage = "done"
    /\ invocations' = [invocations EXCEPT ![i] = Free]
    /\ UNCHANGED <<tigo_client, clients_created, request, provider, response>>

NextOverlapped ==
    \E i \in Slots :
        \/ Arrive(i)
        \/ PkgGetSystemHealthOverlapped(i)
        \/ TopGetMaintenanceInsightsOverlapped(i)
        \/ Return(i)

SpecOverlapped == Init /\ [][NextOverlapped]_vars

----------------------------------------------------------------------------
\* What a finished invocation observed and returned.

PkgHealthDone ==
    request.tool = "pkg.get_system_health" /\ response.kind = "health"
PkgMaintenanceDone ==
    request.tool = "pkg.get_maintenance_insights"
    /\ response.kind = "maintenance"
TopHealthDone ==
    request.tool = "top.Get_System_Health" /\ response.kind = "health"
TopMaintenanceDone ==
    request.tool = "top.Get_Maintenance_Insights"
    /\ response.kind = "maintenance"

\* A package tool got as far as reading the entry of its system.
PkgReadSystem ==
    /\ request.tool \in {"pkg.get_system_health",
                         "pkg.get_maintenance_insights"}
    /\ "system_info" \in DOMAIN provider
    /\ \E i \in 1..Len(provider.systems) :
         provider.systems[i] =
             IF request.system_id # NoSystemId THEN request.system_id
             ELSE provider.systems[1]

RatingPresent == "power_rating" \in DOMAIN provider.system_info
ObservedRating == provider.system_info["power_rating"]
ObservedPower ==
    IF "last_power_dc" \in DOMAIN provider.summary
    THEN provider.summary["last_power_dc"] ELSE 0

----------------------------------------------------------------------------
\* Health classification of the package server.

\* C1: for every alert count a >= 0 and efficiency e, get_system_health of
\* the package server gives the status of the first matching row: Excellent
\* if a = 0 and e > 80, else Good if a = 0 and e > 60, else Fair if a <= 2
\* and e > 40, otherwise Needs Attention; e = 80, 60, 40 fall into the lower
\* class.
C1_HealthTable ==
    (PkgHealthDone /\ response.active_alerts >= 0) =>
        LET a == response.active_alerts
            e == response.efficiency_percent
            status == response.overall_health
        IN  /\ (a = 0 /\ e > 80) => status = "Excellent"
            /\ (a = 0 /\ 60 < e /\ e <= 80) => status = "Good"
            /\ (a = 0 /\ 40 < e /\ e <= 60) => status = "Fair"
            /\ (1 <= a /\ a <= 2 /\ e > 40) => status = "Fair"
            /\ (a > 2 \/ e <= 40) => status = "Needs Attention"

\* C1 witness: no alert and efficiency exactly 80 is Good, not Excellent.
C1_Witness ==
    /\ PkgHealthDone
    /\ response.active_alerts = 0
    /\ response.efficiency_percent = 80
    /\ response.overall_health = "Good"

\* C2: the recommendations of a health assessment are never empty, for the
\* package's get_system_health and for Get_System_Health of src/server.py.
C2_RecommendationsNeverEmpty ==
    (PkgHealthDone \/ TopHealthDone) => response.recommendations # <<>>

C4_NoDivisionError ==
    (PkgReadSystem /\ (RatingPresent => ObservedRating <= 0)) =>
        /\ response.kind # "raised"
        /\ request.tool = "pkg.get_system_health" => response.kind = "health"
        /\ request.tool = "pkg.get_maintenance_insights" =>
               response.kind = "maintenance"

\* C4 witness: get_maintenance_insights answered for a system rated 0 that
\* produces power.
C4_Witness ==
    /\ PkgMaintenanceDone
    /\ RatingPresent /\ ObservedRating = 0
    /\ ObservedPower > 0

----------------------------------------------------------------------------
\* Maintenance plan of the top-level server.

\* What Get_Maintenance_Insights observed.
ObservedPanels == Len(provider.underperforming)
ObservedEfficiency ==
    IF "average_efficiency_percent" \in DOMAIN provider.efficiency
    THEN provider.efficiency["average_efficiency_percent"] ELSE 100
ObservedAlerts ==
    IF "alerts" \in DOMAIN provider.alerts
    THEN provider.alerts["alerts"] ELSE <<>>
ObservedActive ==
    Cardinality({i \in DOMAIN ObservedAlerts :
                   ObservedAlerts[i].status = "active"})

\* The items of the plan of one category.
ItemsOf(category) ==
    SelectSeq(response.maintenance_items,
              LAMBDA item : item.category = category)

\* The part of priority_score left after the panel and alert contributions.
EfficiencyScore ==
    response.priority_score - 10 * ObservedPanels - 15 * ObservedActive

\* C5 as stated: with no underperforming panel, no active alert and
\* efficiency >= threshold_percent (any threshold), the plan has exactly one
\* item, Preventive Maintenance of priority Low, and priority_score is 0 with
\* overall priority Low.
C5_PreventiveItemAtThreshold ==
    (TopMaintenanceDone /\ ObservedPanels = 0 /\ ObservedActive = 0
        /\ ObservedEfficiency >= request.threshold_percent) =>
        /\ Len(response.maintenance_items) = 1
        /\ response.maintenance_items[1].category = "Preventive Maintenance"
        /\ response.maintenance_items[1].priority = "Low"
        /\ response.priority_score = 0
        /\ response.overall_maintenance_priority = "Low"

\* C5 amended: with no underperforming panel, no active alert and efficiency
\* >= 85 (whatever threshold_percent is), the plan has no item at all,
\* priority_score is 0, the overall priority is Low and the next recommended
\* action is the continue-monitoring message.
C5_EmptyPlanWhenHealthy ==
    (TopMaintenanceDone /\ ObservedPanels = 0 /\ ObservedActive = 0
        /\ ObservedEfficiency >= 85) =>
        /\ response.maintenance_items = <<>>
        /\ response.total_issues = 0
        /\ response.priority_score = 0
        /\ response.overall_maintenance_priority = "Low"
        /\ response.next_recommended_action = ContinueMonitoring

\* C5 witness: a healthy system at efficiency 87 asked with threshold 90.
C5_Witness ==
    /\ TopMaintenanceDone
    /\ ObservedPanels = 0 /\ ObservedActive = 0
    /\ ObservedEfficiency = 87
    /\ request.threshold_percent = 90
    /\ response.maintenance_items = <<>>
    /\ response.priority_score = 0

\* C6 as stated: a System Efficiency item is emitted iff e < threshold_percent;
\* it is then exactly one item, High with score +50 if e < 70, Medium with
\* score +25 if 70 <= e < threshold_percent.
C6_EfficiencyItemByThreshold ==
    TopMaintenanceDone =>
        LET e == ObservedEfficiency
            t == request.threshold_percent
            items == ItemsOf("System Efficiency")
        IN  /\ Len(items) = (IF e < t THEN 1 ELSE 0)
            /\ (e < t /\ e < 70) =>
                   items[1].priority = "High" /\ EfficiencyScore = 50
            /\ (70 <= e /\ e < t) =>
                   items[1].priority = "Medium" /\ EfficiencyScore = 25

\* C6 amended: a System Efficiency item is emitted iff e < 85, whatever
\* threshold_percent is; it is then exactly one item, High with score +50 if
\* e < 70, Medium with score +25 if 70 <= e < 85; without it the efficiency
\* adds nothing to the score.
C6_EfficiencyItemBelow85 ==
    TopMaintenanceDone =>
        LET e == ObservedEfficiency
            items == ItemsOf("System Efficiency")
        IN  /\ Len(items) = (IF e < 85 THEN 1 ELSE 0)
            /\ e < 70 => items[1].priority = "High" /\ EfficiencyScore = 50
            /\ (70 <= e /\ e < 85) =>
                   items[1].priority = "Medium" /\ EfficiencyScore = 25
            /\ e >= 85 => EfficiencyScore = 0

\* C6 witness: efficiency exactly 70 with threshold 60 gives the Medium item.
C6_Witness ==
    /\ TopMaintenanceDone
    /\ ObservedEfficiency = 70
    /\ request.threshold_percent = 60
    /\ Len(ItemsOf("System Efficiency")) = 1
    /\ ItemsOf("System Efficiency")[1].priority = "Medium"
    /\ EfficiencyScore = 25

\* C7: priority_score is a non-negative integer equal to 10 * (underperforming
\* panels) + (50 if the High efficiency item fired, 25 if the Medium one
\* fired, 0 otherwise) + 15 * (active alerts); nothing else is added.
C7_PriorityScoreSum ==
    TopMaintenanceDone =>
        LET items == ItemsOf("System Efficiency")
            fired == IF items = <<>> THEN 0
                     ELSE IF items[1].priority = "High" THEN 50
                     ELSE IF items[1].priority = "Medium" THEN 25
                     ELSE 0
        IN  /\ response.priority_score \in Nat
            /\ response.priority_score =
                   10 * ObservedPanels + fired + 15 * ObservedActive

\* C7 witness: five panels, efficiency 55, one active alert among two: 115.
C7_Witness ==
    /\ TopMaintenanceDone
    /\ ObservedPanels = 5
    /\ ObservedEfficiency = 55
    /\ ObservedActive = 1
    /\ Len(ObservedAlerts) = 2
    /\ response.priority_score = 115

PriorityRank(priority) ==
    CASE priority = "Low" -> 0
      [] priority = "Medium" -> 1
      [] priority = "High" -> 2
      [] priority = "Critical" -> 3

\* The largest priority_score of the model's inputs.
MaxScore == 10 * MaxPanels + 50 + 15 * MaxAlerts

\* C8: the overall priority is a function of priority_score alone: Critical
\* above 100, High from 51 to 100, Medium from 26 to 50, Low up to 25; a
\* larger score never yields a lower overall priority.
C8_OverallPriorityTable ==
    TopMaintenanceDone =>
        LET score == response.priority_score
            overall == response.overall_maintenance_priority
        IN  /\ score > 100 => overall = "Critical"
            /\ (51 <= score /\ score <= 100) => overall = "High"
            /\ (26 <= score /\ score <= 50) => overall = "Medium"
            /\ score <= 25 => overall = "Low"
            /\ \A larger \in score..MaxScore :
                   PriorityRank(OverallPriority(larger))
                       >= PriorityRank(overall)

\* C8 witness: a score of exactly 100 is High.
C8_Witness ==
    /\ TopMaintenanceDone
    /\ response.priority_score = 100
    /\ response.overall_maintenance_priority = "High"

\* The plan for the observed system with other panels and alerts.
PlanWith(underperforming, alerts) ==
    TopMaintenanceResult(response.system_id, request.threshold_percent,
                         underperforming, provider.efficiency, alerts)

\* C9: priority_score is monotonically non-decreasing in the active-alert
\* count and in the underperforming-panel count: a snapshot equal in every
\* other field with more active alerts, or with more underperforming panels,
\* never has a smaller priority_score.
C9_ScoreMonotone ==
    TopMaintenanceDone =>
        /\ \A panels \in PanelLists :
            Len(panels) >= ObservedPanels =>
                PlanWith(panels, provider.alerts).priority_score
                    >= response.priority_score
        /\ \A alerts \in AlertReports :
            Len(ActiveAlerts(alerts)) >= ObservedActive =>
                PlanWith(provider.underperforming, alerts).priority_score
                    >= response.priority_score

\* C9 witness: a plan with panels and an active alert, below the largest counts,
\* so that snapshots with more of either exist.
C9_Witness ==
    /\ TopMaintenanceDone
    /\ ObservedPanels = 5
    /\ ObservedActive = 1
    /\ response.priority_score >= 65

CategoryRank(category) ==
    CASE category = "Panel Performance" -> 1
      [] category = "System Efficiency" -> 2
      [] category = "System Alerts" -> 3
      [] OTHER -> 0

\* C10: the items of a plan appear in evaluation order Panel Performance,
\* System Efficiency, System Alerts, each category at most once, and
\* next_recommended_action is the recommendation of the first item in that
\* order whatever the priorities; with no item it is the continue-monitoring
\* message.
C10_EvaluationOrder ==
    TopMaintenanceDone =>
        LET items == response.maintenance_items
        IN  /\ \A i \in 1..Len(items) : CategoryRank(items[i].category) > 0
            /\ \A i, j \in 1..Len(items) :
                   i < j => CategoryRank(items[i].category)
                                < CategoryRank(items[j].category)
            /\ response.next_recommended_action =
                   IF ObservedPanels > 0 THEN InspectPanels
                   ELSE IF ObservedEfficiency < 70 THEN InspectSystem
                   ELSE IF ObservedEfficiency < 85 THEN CleanPanels
                   ELSE IF ObservedActive > 0 THEN AddressImmediately
                   ELSE ContinueMonitoring
            /\ items # <<>> =>
                   response.next_recommended_action = items[1].recommendation

\* C10 witness: a Medium panel item ahead of a High alert item; the next
\* action is the panel item's.
C10_Witness ==
    /\ TopMaintenanceDone
    /\ Len(response.maintenance_items) = 2
    /\ response.maintenance_items[1].category = "Panel Performance"
    /\ response.maintenance_items[1].priority = "Medium"
    /\ response.maintenance_items[2].category = "System Alerts"
    /\ response.maintenance_items[2].priority = "High"
    /\ response.next_recommended_action = InspectPanels

----------------------------------------------------------------------------
\* Recommendations of the package's get_system_health.

\* The positions of an entry in the recommendations returned.
PositionsOf(entry) ==
    {i \in DOMAIN response.recommendations :
        response.recommendations[i] = entry}

\* C11: the recommendations of the package's get_system_health are built in
\* a fixed order: the efficiency entry is present iff efficiency < 60; the
\* entry 'Address N active alerts', N the alert count, is present iff the
\* count is > 0 and comes after the efficiency entry when both are present;
\* 'System is performing well' is present iff neither was added and is then
\* the only entry.
C11_RecommendationsInOrder ==
    PkgHealthDone =>
        LET a == response.active_alerts
            e == response.efficiency_percent
            r == response.recommendations
        IN  /\ PositionsOf(EfficiencyBelowOptimal) # {} <=> e < 60
            /\ PositionsOf(AddressAlerts(a)) # {} <=> a > 0
            /\ \A i \in DOMAIN r :
                   r[i] \in {EfficiencyBelowOptimal, AddressAlerts(a),
                             PerformingWell}
            /\ \A i \in PositionsOf(EfficiencyBelowOptimal),
                  j \in PositionsOf(AddressAlerts(a)) : i < j
            /\ PositionsOf(PerformingWell) # {} <=> (e >= 60 /\ a <= 0)
            /\ PositionsOf(PerformingWell) # {} => r = <<PerformingWell>>
            /\ Len(r) <= 2

\* C11 witness: efficiency below 60 with two alerts gives both entries, the
\* efficiency entry first.
C11_Witness ==
    /\ PkgHealthDone
    /\ response.efficiency_percent < 60
    /\ response.active_alerts = 2
    /\ response.recommendations = <<EfficiencyBelowOptimal, AddressAlerts(2)>>

----------------------------------------------------------------------------
\* Malformed and incomplete snapshots.

\* recent_alerts_count of the entry read, when the entry reports one.
AlertCountPresent == "recent_alerts_count" \in DOMAIN provider.system_info
ObservedAlertCount == provider.system_info["recent_alerts_count"]

\* C12: a snapshot with a negative alert count is rejected before scoring:
\* get_system_health and get_maintenance_insights end with an error and
\* return no status, no recommendations and no priority.  (The panel count
\* and the alert count of src/server.py are lengths of lists and are never
\* negative; recent_alerts_count of the package server is the count a
\* provider can report negative.)
C12_NegativeCountRejected ==
    (PkgReadSystem /\ AlertCountPresent /\ ObservedAlertCount < 0) =>
        /\ response.kind = "raised"
        /\ ~PkgHealthDone
        /\ ~PkgMaintenanceDone

PowerPresent == "last_power_dc" \in DOMAIN provider.summary

\* get_system_health read the entry of its system and at least one of the
\* alert count, the current power and the power rating was not in the
\* provider's records.
PkgHealthPartialView ==
    /\ request.tool = "pkg.get_system_health"
    /\ PkgReadSystem
    /\ (~AlertCountPresent \/ ~PowerPresent \/ ~RatingPresent)

\* C13 as stated: with the alert count, the current power or the power
\* rating missing, get_system_health does not fail and classifies the
\* partial view as Needs Attention.
C13_PartialViewNeedsAttention ==
    PkgHealthPartialView =>
        /\ PkgHealthDone
        /\ response.overall_health = "Needs Attention"

\* C13 amended: with the alert count, the current power or the power rating
\* missing, get_system_health does not fail; a missing alert count is 0, a
\* missing current power is 0 and a missing rating is 1, and the status is
\* the one the health table gives for these values: Needs Attention when
\* the current power is the missing field, and otherwise whatever the
\* remaining values give.
C13_PartialViewDefaults ==
    PkgHealthPartialView =>
        /\ PkgHealthDone
        /\ ~AlertCountPresent => response.active_alerts = 0
        /\ AlertCountPresent => response.active_alerts = ObservedAlertCount
        /\ ~PowerPresent =>
              /\ response.current_power_dc = 0
              /\ response.efficiency_percent = 0
              /\ response.overall_health = "Needs Attention"
        /\ ~RatingPresent =>
              /\ response.rated_power_dc = 1
              /\ response.efficiency_percent = ObservedPower * 100
        /\ (response.active_alerts = 0 /\ response.efficiency_percent > 80)
              => response.overall_health = "Excellent"

\* C13 witness: the alert count is missing, the system is rated 100 and
\* produces 90: the partial view is classified Excellent.
C13_Witness ==
    /\ PkgHealthPartialView
    /\ ~AlertCountPresent
    /\ RatingPresent /\ ObservedRating = 100
    /\ ObservedPower = 90
    /\ PkgHealthDone
    /\ response.overall_health = "Excellent"

----------------------------------------------------------------------------
\* Items and overall priority of Get_Maintenance_Insights.

\* C16: with n underperforming panels the plan has a Panel Performance item
\* iff n > 0; its priority is High if n > 3 and Medium otherwise (n = 3 is
\* Medium); its affected panels are the first min(n, 5) panel ids in the
\* order the provider gave them, never more than 5.
C16_PanelItem ==
    TopMaintenanceDone =>
        LET n == ObservedPanels
            items == ItemsOf("Panel Performance")
        IN  /\ items # <<>> <=> n > 0
            /\ Len(items) <= 1
            /\ n > 0 =>
                  /\ items[1].priority = IF n > 3 THEN "High" ELSE "Medium"
                  /\ Len(items[1].affected_panels) = IF n < 5 THEN n ELSE 5
                  /\ \A i \in DOMAIN items[1].affected_panels :
                         items[1].affected_panels[i] =
                             provider.underperforming[i].panel_id

\* C16 witness: three underperforming panels give a Medium item listing the
\* three of them.
C16_Witness ==
    /\ TopMaintenanceDone
    /\ ObservedPanels = 3
    /\ ItemsOf("Panel Performance") # <<>>
    /\ ItemsOf("Panel Performance")[1].priority = "Medium"
    /\ ItemsOf("Panel Performance")[1].affected_panels = <<3, 2, 1>>

\* The plan has an item of this category and priority.
HasItem(category, priority) ==
    \E i \in DOMAIN response.maintenance_items :
        /\ response.maintenance_items[i].category = category
        /\ response.maintenance_items[i].priority = priority

OverallRank == PriorityRank(response.overall_maintenance_priority)

\* C19 as stated: the overall maintenance priority is never lower than the
\* priority of any item of the plan: a High item makes it High or Critical,
\* a Medium item at least Medium.
C19_OverallAtLeastItems ==
    TopMaintenanceDone =>
        \A i \in DOMAIN response.maintenance_items :
            OverallRank >= PriorityRank(response.maintenance_items[i].priority)

\* C19 amended: the overall priority follows priority_score alone and can be
\* lower than an item's priority.  A High Panel Performance item, a High
\* System Efficiency item or a System Alerts item for two or more active
\* alerts makes it at least Medium; a High System Efficiency item together
\* with one more item makes it at least High.  A System Alerts item for one
\* active alert, or a Medium item, gives no lower bound.
C19_OverallFromScore ==
    TopMaintenanceDone =>
        /\ HasItem("Panel Performance", "High") => OverallRank >= 1
        /\ HasItem("System Efficiency", "High") => OverallRank >= 1
        /\ (HasItem("System Alerts", "High") /\ ObservedActive >= 2)
              => OverallRank >= 1
        /\ (HasItem("System Efficiency", "High")
               /\ Len(response.maintenance_items) >= 2) => OverallRank >= 2

\* C19 witness: one active alert and nothing else: a High item in a plan
\* of overall priority Low.
C19_Witness ==
    /\ TopMaintenanceDone
    /\ ObservedActive = 1
    /\ ObservedPanels = 0
    /\ response.maintenance_items # <<>>
    /\ response.maintenance_items[1].priority = "High"
    /\ response.overall_maintenance_priority = "Low"

----------------------------------------------------------------------------
\* Status and recommendations of the package's get_system_health together.

\* C20: 'System is performing well' is issued only for healthy
\* classifications: whenever get_system_health of the package server gives
\* Fair or Needs Attention (alert count >= 0), the recommendations hold a
\* corrective entry (the efficiency entry or the alert entry) and do not
\* hold 'System is performing well', the efficiencies 60 and 40 included.
C20_PerformingWellOnlyWhenHealthy ==
    (PkgHealthDone /\ response.active_alerts >= 0
        /\ response.overall_health \in {"Fair", "Needs Attention"}) =>
        /\ PositionsOf(PerformingWell) = {}
        /\ \/ PositionsOf(EfficiencyBelowOptimal) # {}
           \/ PositionsOf(AddressAlerts(response.active_alerts)) # {}

----------------------------------------------------------------------------
\* Default system and client of an invocation.

Answered == response.kind \in {"details", "health", "maintenance"}
ListingRead == "systems" \in DOMAIN provider

\* C17: a tool invoked without system_id works on the first system of the
\* provider's listing; when the listing is empty it ends with a 'No systems
\* found' error and calls the provider no further; a system_id given by
\* the caller is never replaced.
C17_DefaultSystem ==
    request # Idle =>
        /\ (Answered /\ request.system_id = NoSystemId) =>
              /\ ListingRead
              /\ provider.systems # <<>>
              /\ response.system_id = provider.systems[1]
        /\ (Answered /\ request.system_id # NoSystemId) =>
              response.system_id = request.system_id
        /\ (request.system_id = NoSystemId /\ ListingRead
               /\ provider.systems = <<>>) =>
              /\ response \in {Returned("No systems found"),
                                Raised("No systems found for this account")}
              /\ provider.calls \in {<<"list_systems">>, <<"get_systems">>}

\* C17 witness: Get_System_Details without system_id for an account with no
\* system: the error, after the listing call alone.
C17_Witness ==
    /\ request.tool = "top.Get_System_Details"
    /\ request.system_id = NoSystemId
    /\ ListingRead
    /\ provider.systems = <<>>
    /\ response = Returned("No systems found")
    /\ provider.calls = <<"list_systems">>

PkgTools ==
    {"pkg.get_system_details", "pkg.get_system_health",
     "pkg.get_maintenance_insights"}

FailedToInitialize == Raised("Failed to initialize Tigo API client")

\* C18: over any sequence of initialize_tigo_client() calls at most one
\* client is ever created and kept; once a creation succeeded every later
\* call uses that client and constructs none; a failed attempt returns
\* None and leaves the global unset, and nothing remembers the failure: a
\* call that finds the global unset attempts the construction, and gets a
\* client exactly when the credentials are set and the constructor
\* succeeds.
C18_ClientSingleton ==
    [][/\ clients_created' <= 1
       /\ tigo_client' = NoClient <=> clients_created' = 0
       /\ tigo_client # NoClient =>
             /\ tigo_client' = tigo_client
             /\ clients_created' = clients_created
             /\ request'.tool \in PkgTools =>
                   /\ "attempt" \notin DOMAIN provider'
                   /\ response' # FailedToInitialize
       /\ (tigo_client = NoClient /\ request'.tool \in PkgTools) =>
             /\ "attempt" \in DOMAIN provider'
             /\ tigo_client' # NoClient <=>
                   (provider'.attempt.credentials
                      /\ provider'.attempt.constructed)
             /\ tigo_client' = NoClient <=> response' = FailedToInitialize
      ]_vars

\* C18 witness: get_system_health answered with the client an earlier call
\* created, no construction attempted.
C18_Witness ==
    /\ request.tool = "pkg.get_system_health"
    /\ "attempt" \notin DOMAIN provider
    /\ tigo_client = 1
    /\ clients_created = 1
    /\ response.kind = "health"

----------------------------------------------------------------------------
\* Invocations that overlap or follow one another.

Done(i) == invocations[i].stage = "done"
AnsweredCall(i) ==
    Done(i) /\ invocations[i].response.kind \in {"health", "maintenance"}

\* Two calls of the same tool observed the same snapshot values (and the
\* same threshold).
SameSnapshot(i, j) ==
    LET a == invocations[i].call
        b == invocations[j].call
    IN  /\ a.tool = b.tool
        /\ a.p = b.p
        /\ a.tool = "top.Get_Maintenance_Insights" =>
              a.threshold_percent = b.threshold_percent

\* What an answer says of the system: status and recommendations of a
\* health answer; score, overall priority and items of a maintenance plan.
Assessment(r) ==
    IF r.kind = "health"
    THEN <<r.overall_health, r.recommendations, r.efficiency_percent>>
    ELSE <<r.overall_maintenance_priority, r.maintenance_items,
           r.priority_score>>

Alone(k) ==
    IF k.tool = "pkg.get_system_health"
    THEN PkgHealthResponse(NoClient, 1, k)
    ELSE TopMaintenanceResponse(k)

\* The calls in flight are for different systems.
DifferentSystems ==
    \A i, j \in Slots :
        (i # j /\ invocations[i] # Free /\ invocations[j] # Free) =>
            invocations[i].call.system_id # invocations[j].call.system_id

----------------------------------------------------------------------------
\* The health tools of the two servers side by side.

\* C21: the two implementations of the health tool agree: for every alert
\* count (>= 0) and efficiency, the status that Get_System_Health of
\* src/server.py returns and the status that get_system_health of the
\* package server returns are the same: whichever tool answered, its status
\* is also the one the other tool's chain gives for that alert count and
\* efficiency.
C21_HealthToolsAgree ==
    ((PkgHealthDone \/ TopHealthDone) /\ response.active_alerts >= 0) =>
        /\ response.overall_health =
              PkgOverallHealth(response.active_alerts,
                               response.efficiency_percent)
        /\ response.overall_health =
              TopHealthStatus(response.active_alerts,
                              response.efficiency_percent)

====
